---- MODULE Spec2Model ----
(***************************************************************************)
(* Meeting-session orchestration of meeting-bot: the admission gate, the   *)
(* two ingestion paths, processMeetingJoin / joinMeetWithRetry and the     *)
(* ZoomBot.join lifecycle (Spec); the in-page recorder of RecordingTask and *)
(* the wait of recordMeetingPage (RecSpec); the in-page chunk handler       *)
(* (ChunkSpec); YouTubeLiveStreamer behind the chunk fan-out (LiveSpec);    *)
(* FFmpegRecorder (FfSpec); the job runner run-jobs (RunSpec).              *)
(***************************************************************************)
EXTENDS Integers, Sequences, FiniteSets, TLC

\* ------------------------------------------------------------------ bounds
\* config.retryCount ranges over 0..MaxConfigRetry
MaxConfigRetry == 2
\* KnownError.maxRetries ranges over 0..MaxRetriesField
MaxRetriesField == 3
\* number of REST callers (each runs submitJob once)
NumRestClients == 2
\* number of messages pushed on the queue
NumQueueMsgs == 1
\* config.joinWaitTime, counted in 2 s periods of the lobby poll
LobbyPolls == 2
\* config.maxRecordingDuration, in ticks of 2 s (the period of the lone test)
RecDuration == 3
\* processingTime of recordMeetingPage (12 s), in ticks
ProcessingTicks == 1
\* config.activateInactivityDetectionAfter, in ticks
ActivateAfter == 1
\* config.inactivityLimit, in checks of monitorSilence
InactivityLimit == 2
\* longest time from the creation of the waiting promise to mediaRecorder.start
MaxSetup == 2
\* stopTheRecording calls followed per recording
MaxStops == 3
\* chunks the MediaRecorder produces
NumChunks == 3
\* ffmpeg processes one YouTubeLiveStreamer spawns
MaxSpawns == 1
\* chunks handed to the sinks
NumLiveChunks == 2
\* calls of YouTubeLiveStreamer.stop
MaxStopCalls == 1
MaxStartCalls == 3
\* ffmpeg processes one FFmpegRecorder spawns
MaxFfSpawns == 1
\* calls of FFmpegRecorder.stop
MaxFfStops == 2
\* jobs in the meeting-jobs file
NumJobs == 3
\* join requests other clients get accepted while the runner works
MaxForeignJobs == 2

\* ------------------------------------------------------- program constants
\* sleep(retryCount * 30000)
BackoffUnitMs == 30000
\* const silenceThreshold = 10
SilenceThreshold == 10

\* ------------------------------------------------------------------- state
VARIABLES
    configRetryCount,   \* config.retryCount
    isBusy,             \* the admission token: a session is in flight
    inflight,           \* requests whose session has been started and not finished
    current,            \* request the session variables below belong to (0 = none)
    cpc,                \* REST caller position in submitJob: post / accepted
    lastStatus,         \* REST caller: last HTTP status received (0 = none)
    busyWhenHandled,    \* REST caller: gate state seen by the handler of its last request
    unsent,             \* queue messages not yet pushed
    queue,              \* the FIFO list of the queue path
    provider,           \* provider of the session in flight
    pmj,                \* processMeetingJoin: idle / running / resolved / rejected
    jpc,                \* joinMeetWithRetry position
    retryCount,         \* joinMeetWithRetry's retryCount
    events,             \* per session: processor invocations and sleeps, in order
    everyErr,           \* per session: the error every failed attempt so far threw
                        \* (NoError: none failed yet, MixedErrors: they differ)
    thrown,             \* error joinMeetWithRetry rejected with
    bpc,                \* processor (ZoomBot.join) position
    presult,            \* processor outcome of the current attempt: none / ok / err
    perr,               \* error of the current attempt
    state,              \* ZoomBot.join's _state (status history)
    reported,           \* last status history given to patchBotStatus
    browser,            \* browser of the current attempt: none / open / closing / closed
    uploadStarted,      \* per attempt: handleUpload was entered
    lobbyClock,         \* per attempt: 2 s periods spent in the lobby wait so far
                        \* (0 again once the bot was admitted)
    lobbyOutcome,       \* per attempt: how the lobby wait ended: none / admitted / ceiling
    lobbyReading,       \* per attempt: the footer reading that ended the lobby wait
    hostDenied          \* per attempt: the host has denied the join request

\* RecordingTask (in-page) and recordMeetingPage
VARIABLES
    now,                \* time since recordMeetingPage created the waiting promise, in ticks
    rpc,                \* RecordingTask.execute: init / returned / rejected
    rec,                \* the closure of startRecording: timers, flags, recorder state
    meetEndsHandled,    \* screenAppMeetEnd calls the Node side has handled
    waitingPromise,     \* pending / resolved
    recBrowser          \* the browser of recordMeetingPage: open / closing / closed

recVars == <<now, rpc, rec, meetEndsHandled, waitingPromise, recBrowser>>

\* mediaRecorder.ondataavailable (in-page)
VARIABLES
    produced,           \* chunks the recorder has handed to ondataavailable so far
    emptyChunks,        \* those of them with event.data.size = 0
    reading,            \* chunks whose event.data.arrayBuffer() is pending
    sending,            \* chunks whose screenAppSendData call is pending
    sent,               \* chunks given to screenAppSendData, in call order
    chunkErrors         \* chunks whose handler caught an error

chunkVars == <<produced, emptyChunks, reading, sending, sent, chunkErrors>>

\* YouTubeLiveStreamer and the sinks of the chunk fan-out
VARIABLES
    lproc,              \* this.process: 0 (null) or the process it refers to
    lspawns,            \* processes spawned so far
    lstate,             \* per process: unspawned / running / exited / failed (spawn error)
    lkilled,            \* per process: ChildProcess.killed
    lstarts,            \* per start() call: its promise and the process it spawned
    stdinLog,           \* what was written to the processes' stdin, in order
    stdinEnded,         \* processes whose stdin was ended
    needDrain,          \* stdin.write returned false and 'drain' has not been emitted since
    wc,                 \* per chunk: the writeChunk call made for it
    stops,              \* per stop() call: its promise, its process, its grace timer
    sigterms,           \* SIGTERM signals delivered, in order
    received,           \* chunks the fan-out has received
    durable,            \* chunks appended to the durable sink, in order
    sealed              \* the durable sink was finalized

liveVars == <<lproc, lspawns, lstate, lkilled, lstarts, stdinLog, stdinEnded, needDrain, wc, stops,
              sigterms, received, durable, sealed>>

\* FFmpegRecorder
VARIABLES
    ffmpegProcess,      \* this.ffmpegProcess: 0 (null) or the process it refers to
    ffspawns,           \* processes spawned so far
    ffstate,            \* per process: unspawned / running / exited / signalled / failed
    ffkilled,           \* per process: ChildProcess.killed
    ffstdin,            \* per process: quit commands written to stdin
    ffstops,            \* per stop() call: its promise, its process, its two timers
    ffstarts,           \* per start() call: its promise and its 2 s timer
    ffconfig,           \* unset (no start yet) / ok / missing (outputToStdout is
                        \* false and there is no outputPath)
    ffsignals           \* signals delivered by kill(), in order

ffVars == <<ffmpegProcess, ffspawns, ffstate, ffkilled, ffstdin, ffstops, ffstarts,
           ffconfig, ffsignals>>

\* the job runner (run-jobs) and the server it talks to
VARIABLES
    runIndex,           \* run: index of the job being handled (1-based)
    runPc,              \* run: submit / waitBusy / waitIdle / done / failed
    runStatus,          \* submitJob: last HTTP status received (0 = none)
    runError,           \* what run threw: none / post / isbusy / busyTimeout /
                        \* idleTimeout
    exitCode,           \* process.exitCode of the runner
    runObserved,        \* waitForJobCompletion since the last accepted post:
                        \* none / busy / busyThenIdle
    accepted,           \* jobs of the file the server accepted, in order
    finished,           \* jobs of the file whose session has ended
    srvOwner,           \* session in flight on the server: 0 none, j > 0 job j of
                        \* the file, ForeignJob a request of another client
    foreignJobs         \* requests of other clients accepted so far

runVars == <<runIndex, runPc, runStatus, runError, exitCode, runObserved, accepted, finished,
             srvOwner, foreignJobs>>

vars == <<configRetryCount, isBusy, inflight, current, cpc, lastStatus, busyWhenHandled,
          unsent, queue, provider, pmj, jpc, retryCount, events, everyErr, thrown,
          bpc, presult, perr, state, reported, browser, uploadStarted,
          lobbyClock, lobbyOutcome, lobbyReading, hostDenied, recVars, chunkVars,
          liveVars, ffVars, runVars>>

gateVars == <<isBusy, inflight, current>>
restVars == <<cpc, lastStatus, busyWhenHandled>>
queueVars == <<unsent, queue>>
retryVars == <<pmj, jpc, retryCount, events, everyErr, thrown>>
lobbyVars == <<lobbyClock, lobbyOutcome, lobbyReading, hostDenied>>
botVars == <<bpc, presult, perr, state, reported, browser, uploadStarted, lobbyVars>>
sessionVars == <<configRetryCount, gateVars, restVars, queueVars, provider, retryVars,
                 botVars>>

\* the variables each component leaves alone
notSession == <<recVars, chunkVars, liveVars, ffVars, runVars>>
notRec == <<sessionVars, chunkVars, liveVars, ffVars, runVars>>
notChunk == <<sessionVars, recVars, liveVars, ffVars, runVars>>
notLive == <<sessionVars, recVars, chunkVars, ffVars, runVars>>
notFf == <<sessionVars, recVars, chunkVars, liveVars, runVars>>
notRun == <<sessionVars, recVars, chunkVars, liveVars, ffVars>>

\* ------------------------------------------------------------------ values
RestClients == 1..NumRestClients
QueueMsgs == (NumRestClients + 1)..(NumRestClients + NumQueueMsgs)

\* MeetingJoinRedisParams.provider; "generic" stands for any processor other
\* than ZoomBot.join passed to joinMeetWithRetry
Providers == {"zoom", "generic"}

\* KnownError(retryable, maxRetries)
KnownErrors ==
    [kind : {"known"}, retryable : BOOLEAN, maxRetries : 0..MaxRetriesField]

\* WaitingAtLobbyRetryError(message, bodyText, retryable, maxRetries)
LobbyErrors ==
    [kind : {"lobby"}, retryable : BOOLEAN, maxRetries : 0..MaxRetriesField]

\* any other thrown value (Error, playwright TimeoutError, ...)
OtherError == [kind |-> "other", retryable |-> FALSE, maxRetries |-> 0]

NoError == [kind |-> "none", retryable |-> FALSE, maxRetries |-> 0]
MixedErrors == [kind |-> "mixed", retryable |-> FALSE, maxRetries |-> 0]

\* the summary of the attempts' errors after one more attempt failed with e
Seen(prev, e) == IF prev = NoError \/ prev = e THEN e ELSE MixedErrors

AllErrors == KnownErrors \cup LobbyErrors \cup {OtherError}

\* what a collaborator outside ZoomBot (createBrowserContext, the uploader) may throw
CollabErrors == KnownErrors \cup {OtherError}

\* new WaitingAtLobbyRetryError('Zoom bot could not enter...', bodyText, false, 0)
ZoomLobbyError == [kind |-> "lobby", retryable |-> FALSE, maxRetries |-> 0]

Invoke == [op |-> "invoke", ms |-> 0]
Sleep(ms) == [op |-> "sleep", ms |-> ms]

Range(s) == {s[i] : i \in 1..Len(s)}

\* what one poll of the footer can find: no footer or no participant count in it,
\* a count of 0, a count other than 0
FooterReadings == {"none", "zero", "nonzero"}

\* -------------------------------------------------------------------- Init
SessionInit ==
    /\ configRetryCount \in 0..MaxConfigRetry
    /\ isBusy = FALSE
    /\ inflight = {}
    /\ current = 0
    /\ cpc = [c \in RestClients |-> "post"]
    /\ lastStatus = [c \in RestClients |-> 0]
    /\ busyWhenHandled = [c \in RestClients |-> FALSE]
    /\ unsent = QueueMsgs
    /\ queue = <<>>
    /\ provider = "zoom"
    /\ pmj = "idle"
    /\ jpc = "idle"
    /\ retryCount = 0
    /\ events = <<>>
    /\ everyErr = NoError
    /\ thrown = NoError
    /\ bpc = "idle"
    /\ presult = "none"
    /\ perr = NoError
    /\ state = <<>>
    /\ reported = <<>>
    /\ browser = "none"
    /\ uploadStarted = FALSE
    /\ lobbyClock = 0
    /\ lobbyOutcome = "none"
    /\ lobbyReading = "none"
    /\ hostDenied = FALSE

\* a timer that is not armed
NoTimer == -1

\* the page before startRecording ran
RecInit ==
    /\ now = 0
    /\ rpc = "init"
    /\ rec = [mediaRecorder |-> "none", startedAt |-> NoTimer, timeoutId |-> NoTimer,
              inactivityDetectionTimeout |-> NoTimer, loneTest |-> NoTimer,
              silenceTimer |-> NoTimer, monitor |-> TRUE, silenceDuration |-> 0,
              stopCalls |-> 0, meetEnds |-> 0, stopCause |-> "none",
              stoppedAt |-> NoTimer, activateAfter |-> 0,
              detectorsStartedAt |-> NoTimer, lastCheck |-> "none",
              silentSince |-> NoTimer, silenceStoppedAt |-> NoTimer]
    /\ meetEndsHandled = 0
    /\ waitingPromise = "pending"
    /\ recBrowser = "open"

\* no chunk was produced yet
ChunkInit ==
    /\ produced = 0
    /\ emptyChunks = {}
    /\ reading = {}
    /\ sending = {}
    /\ sent = <<>>
    /\ chunkErrors = {}

LiveProcs == 1..MaxSpawns
LiveChunks == 1..NumLiveChunks
StopCalls == 1..MaxStopCalls
StartCalls == 1..MaxStartCalls

\* the quit command 'q\n' in the log of stdin writes (chunks are 1, 2, ...)
QuitCmd == 0

NoWrite == [st |-> "none", canWrite |-> FALSE, drained |-> FALSE, proc |-> 0]
NoStop == [st |-> "none", proc |-> 0, sawRunning |-> FALSE, quitThrew |-> FALSE,
           timer |-> "none"]

\* a start() call: its promise (pending while its 2 s timer is armed), the
\* process it spawned, 0 if none, and whether the process it is about ran when
\* the call resolved or its timer fired
NoStart == [st |-> "none", proc |-> 0, sawRunning |-> FALSE]

\* how a process ends: exit code 0, another exit code, a signal
ExitKinds == {"zero", "nonzero", "signal"}

\* new YouTubeLiveStreamer(): process = null; the fan-out has received nothing
LiveInit ==
    /\ lproc = 0
    /\ lspawns = 0
    /\ lstate = [p \in LiveProcs |-> "unspawned"]
    /\ lkilled = [p \in LiveProcs |-> FALSE]
    /\ lstarts = [c \in StartCalls |-> NoStart]
    /\ stdinLog = <<>>
    /\ stdinEnded = {}
    /\ needDrain = FALSE
    /\ wc = [k \in LiveChunks |-> NoWrite]
    /\ stops = [c \in StopCalls |-> NoStop]
    /\ sigterms = <<>>
    /\ received = 0
    /\ durable = <<>>
    /\ sealed = FALSE

FfProcs == 1..MaxFfSpawns
FfStops == 1..MaxFfStops

NoFfStop == [st |-> "none", proc |-> 0, sawRunning |-> FALSE, quitThrew |-> FALSE,
             timeout |-> "none", killTimer |-> "none"]

\* a start() call: its promise, whether it spawned, its 2 s timer, and whether
\* the process it spawned was running when that timer fired
NoFfStart == [st |-> "none", spawned |-> FALSE, timer |-> "none", ranAtTimer |-> FALSE]

\* new FFmpegRecorder(): ffmpegProcess = null
FfInit ==
    /\ ffmpegProcess = 0
    /\ ffspawns = 0
    /\ ffstate = [p \in FfProcs |-> "unspawned"]
    /\ ffkilled = [p \in FfProcs |-> FALSE]
    /\ ffstdin = [p \in FfProcs |-> 0]
    /\ ffstops = [c \in FfStops |-> NoFfStop]
    /\ ffstarts = [c \in FfProcs |-> NoFfStart]
    /\ ffconfig = "unset"
    /\ ffsignals = <<>>

Jobs == 1..NumJobs
ForeignJob == -1

\* run() after loadJobsFile and waitForServerReady: index = 0 of the for loop
RunInit ==
    /\ runIndex = 1
    /\ runPc = "submit"
    /\ runStatus = 0
    /\ runError = "none"
    /\ exitCode = 0
    /\ runObserved = "none"
    /\ accepted = <<>>
    /\ finished = {}
    /\ srvOwner = 0
    /\ foreignJobs = 0

ComponentsInit == RecInit /\ ChunkInit /\ LiveInit /\ FfInit /\ RunInit

Init == SessionInit /\ ComponentsInit

\* no session is running
SessionOff == SessionInit /\ configRetryCount = 0

\* the initial state of the specifications of the components
PartsInit == SessionOff /\ ComponentsInit

\* a new attempt has not been in the lobby
LobbyReset ==
    /\ lobbyClock' = 0
    /\ lobbyOutcome' = "none"
    /\ lobbyReading' = "none"
    /\ hostDenied' = FALSE

\* ---------------------------------------------------------- admission gate
\* tryAcquire succeeds only when the slot is empty
CanAcquireAlways == TRUE
CanAcquire == ~isBusy

\* acquire the gate for request r and start processMeetingJoin, which calls
\* joinMeetWithRetry(processor, ..., retryCount = 0, ...)
StartSession(r, p) ==
    /\ isBusy' = TRUE
    /\ inflight' = inflight \cup {r}
    /\ current' = r
    /\ provider' = p
    /\ pmj' = "running"
    /\ jpc' = "invoke"
    /\ retryCount' = 0
    /\ events' = <<>>
    /\ everyErr' = NoError
    /\ thrown' = NoError
    /\ bpc' = "idle"
    /\ presult' = "none"
    /\ perr' = NoError
    /\ state' = <<>>
    /\ reported' = <<>>
    /\ browser' = "none"
    /\ uploadStarted' = FALSE
    /\ LobbyReset

\* POST /<provider>/join while the gate is free: 202 Accepted
RestJoinAccepted(c, p) ==
    /\ cpc[c] = "post"
    /\ CanAcquire
    /\ busyWhenHandled' = [busyWhenHandled EXCEPT ![c] = isBusy]
    /\ lastStatus' = [lastStatus EXCEPT ![c] = 202]
    /\ cpc' = [cpc EXCEPT ![c] = "accepted"]
    /\ StartSession(c, p)
    /\ UNCHANGED <<notSession, configRetryCount, queueVars>>

\* POST /<provider>/join while a session is in flight: 409 Conflict (BUSY);
\* submitJob then sleeps pollIntervalMs and loops to post the same job again
RestJoinBusy(c) ==
    /\ cpc[c] = "post"
    /\ ~CanAcquire
    /\ busyWhenHandled' = [busyWhenHandled EXCEPT ![c] = isBusy]
    /\ lastStatus' = [lastStatus EXCEPT ![c] = 409]
    /\ UNCHANGED <<notSession, configRetryCount, gateVars, cpc, queueVars, provider, retryVars, botVars>>

\* a producer RPUSHes the next join message on the queue
QueuePush ==
    /\ unsent # {}
    /\ LET m == CHOOSE x \in unsent : \A y \in unsent : x <= y
       IN /\ unsent' = unsent \ {m}
          /\ queue' = Append(queue, m)
    /\ UNCHANGED <<notSession, configRetryCount, gateVars, restVars, provider, retryVars, botVars>>

\* the queue consumer takes the head message only when the gate is free
QueueConsume(p) ==
    /\ queue # <<>>
    /\ CanAcquire
    /\ queue' = Tail(queue)
    /\ StartSession(Head(queue), p)
    /\ UNCHANGED <<notSession, configRetryCount, restVars, unsent>>

\* the caller of processMeetingJoin releases the gate once its promise resolved;
\* the session is over and its state is dropped
Release ==
    /\ pmj = "resolved"
    /\ isBusy' = FALSE
    /\ inflight' = inflight \ {current}
    /\ current' = 0
    /\ provider' = "zoom"
    /\ pmj' = "idle"
    /\ jpc' = "idle"
    /\ retryCount' = 0
    /\ events' = <<>>
    /\ everyErr' = NoError
    /\ thrown' = NoError
    /\ bpc' = "idle"
    /\ presult' = "none"
    /\ perr' = NoError
    /\ state' = <<>>
    /\ reported' = <<>>
    /\ browser' = "none"
    /\ uploadStarted' = FALSE
    /\ LobbyReset
    /\ UNCHANGED <<notSession, configRetryCount, restVars, queueVars>>

\* ------------------------------------------------------ joinMeetWithRetry
\* the three rethrow conditions of the catch block, in order
IsTerminalLobbyRetried(e, rc) ==
    \/ e.kind = "known" /\ ~e.retryable
    \/ e.kind = "known" /\ e.retryable /\ (rc + 1) >= e.maxRetries
IsTerminalIgnoresRetryable(e, rc) ==
    \/ e.kind = "lobby"
    \/ e.kind = "known" /\ e.retryable /\ (rc + 1) >= e.maxRetries
IsTerminal(e, rc) ==
    \/ e.kind = "lobby"
    \/ e.kind = "known" /\ ~e.retryable
    \/ e.kind = "known" /\ e.retryable /\ (rc + 1) >= e.maxRetries

\* sleep(retryCount * 30000), retryCount already incremented
BackoffFlat(rc) == BackoffUnitMs
BackoffMs(rc) == rc * BackoffUnitMs

\* if (retryCount <= config.retryCount) recurse, else throw
ShouldRetryStrict(rc, cfg) == rc < cfg
ShouldRetryOnceMore(rc, cfg) == rc <= cfg + 1
ShouldRetry(rc, cfg) == rc <= cfg

\* await processor({...}): the processor starts a fresh attempt
JInvoke ==
    /\ jpc = "invoke"
    /\ jpc' = "await"
    /\ events' = Append(events, Invoke)
    /\ bpc' = IF provider = "zoom" THEN "launch" ELSE "generic"
    /\ presult' = "none"
    /\ perr' = NoError
    /\ state' = IF provider = "zoom" THEN <<"processing">> ELSE <<>>
    /\ browser' = "none"
    /\ uploadStarted' = FALSE
    /\ LobbyReset
    /\ UNCHANGED <<notSession, configRetryCount, gateVars, restVars, queueVars, provider, pmj,
                   retryCount, everyErr, thrown, reported>>

\* the processor resolved: joinMeetWithRetry (and every enclosing call) returns
JReturn ==
    /\ jpc = "await"
    /\ bpc = "ended"
    /\ presult = "ok"
    /\ jpc' = "returned"
    /\ UNCHANGED <<notSession, configRetryCount, gateVars, restVars, queueVars, provider, pmj,
                   retryCount, events, everyErr, thrown, botVars>>

\* catch (error): rethrow at once, or retryCount += 1 and start the sleep
JCatch ==
    /\ jpc = "await"
    /\ bpc = "ended"
    /\ presult = "err"
    /\ IF IsTerminal(perr, retryCount)
         THEN /\ jpc' = "threw"
              /\ thrown' = perr
              /\ UNCHANGED <<retryCount, events>>
         ELSE /\ jpc' = "sleeping"
              /\ retryCount' = retryCount + 1
              /\ events' = Append(events, Sleep(BackoffMs(retryCount + 1)))
              /\ UNCHANGED thrown
    /\ UNCHANGED <<notSession, configRetryCount, gateVars, restVars, queueVars, provider, pmj,
                   everyErr, botVars>>

\* the sleep is over: call joinMeetWithRetry again, or throw the caught error
JWake ==
    /\ jpc = "sleeping"
    /\ IF ShouldRetry(retryCount, configRetryCount)
         THEN jpc' = "invoke" /\ UNCHANGED thrown
         ELSE jpc' = "threw" /\ thrown' = perr
    /\ UNCHANGED <<notSession, configRetryCount, gateVars, restVars, queueVars, provider, pmj,
                   retryCount, events, everyErr, botVars>>

\* ----------------------------------------------------- processMeetingJoin
\* try { await joinMeetWithRetry(...) } catch (error) { log only }
PmjOutcomeRethrows(j) == IF j = "threw" THEN "rejected" ELSE "resolved"
PmjOutcome(j) == IF j = "threw" THEN "resolved" ELSE "resolved"

PmjSettle ==
    /\ pmj = "running"
    /\ jpc \in {"returned", "threw"}
    /\ pmj' = PmjOutcome(jpc)
    /\ UNCHANGED <<notSession, configRetryCount, gateVars, restVars, queueVars, provider, jpc,
                   retryCount, events, everyErr, thrown, botVars>>

\* -------------------------------------------- a processor other than Zoom
\* processor: (params) => Promise<void>: resolves or rejects with any error
GenericProcessor ==
    /\ bpc = "generic"
    /\ bpc' = "ended"
    /\ \/ presult' = "ok" /\ UNCHANGED <<perr, everyErr>>
       \/ \E e \in AllErrors :
            /\ presult' = "err"
            /\ perr' = e
            /\ everyErr' = Seen(everyErr, e)
    /\ UNCHANGED <<notSession, configRetryCount, gateVars, restVars, queueVars, provider, pmj, jpc,
                   retryCount, events, thrown, state, reported, browser, uploadStarted,
                   lobbyVars>>

\* ------------------------------------------------------------ ZoomBot.join
\* catch(error): if (!_state.includes('finished')) _state.push('failed')
CatchStateNeverFailed(st) == st
CatchStateAlwaysFailed(st) == Append(st, "failed")
CatchState(st) == IF "finished" \in Range(st) THEN st ELSE Append(st, "failed")

\* ZoomBot.join's catch block: push 'failed', patchBotStatus, rethrow
JoinCatch(e) ==
    /\ state' = CatchState(state)
    /\ reported' = CatchState(state)
    /\ presult' = "err"
    /\ perr' = e
    /\ everyErr' = Seen(everyErr, e)
    /\ bpc' = "ended"

zoomFrame == <<notSession, configRetryCount, gateVars, restVars, queueVars, provider, pmj, jpc,
               retryCount, events, thrown>>

\* a step of joinMeeting that moves on without touching the history or the browser
ZoomAdvance(next) ==
    /\ bpc' = next
    /\ UNCHANGED <<presult, perr, everyErr, state, reported, browser, uploadStarted>>

\* this.page = await createBrowserContext(url, correlationId, 'zoom')
ZoomLaunch ==
    /\ bpc = "launch"
    /\ \/ /\ browser' = "open"
          /\ bpc' = "navigate"
          /\ UNCHANGED <<presult, perr, everyErr, state, reported, uploadStarted>>
       \/ /\ \E e \in CollabErrors : JoinCatch(e)
          /\ UNCHANGED <<browser, uploadStarted>>
    /\ UNCHANGED <<zoomFrame, lobbyVars>>

\* page.route, page.goto(url), accept cookies, tryCompleteWebinarRegistration
ZoomNavigate ==
    /\ bpc = "navigate"
    /\ \/ ZoomAdvance("webclient")
       \/ JoinCatch(OtherError) /\ UNCHANGED <<browser, uploadStarted>>
    /\ UNCHANGED <<zoomFrame, lobbyVars>>

\* Join from your browser, else visitWebClientByUrl; throws when !canAccess
ZoomWebClient ==
    /\ bpc = "webclient"
    /\ \E foundAndClickedJoinFromBrowser, navSuccess, canAccess \in BOOLEAN :
         IF (foundAndClickedJoinFromBrowser /\ navSuccess) \/ canAccess
           THEN ZoomAdvance("container")
           ELSE JoinCatch(OtherError) /\ UNCHANGED <<browser, uploadStarted>>
    /\ UNCHANGED <<zoomFrame, lobbyVars>>

\* detectAppContainer; throws when no container was found
ZoomContainer ==
    /\ bpc = "container"
    /\ \E foundAppContainer \in BOOLEAN :
         IF foundAppContainer
           THEN ZoomAdvance("fillJoin")
           ELSE JoinCatch(OtherError) /\ UNCHANGED <<browser, uploadStarted>>
    /\ UNCHANGED <<zoomFrame, lobbyVars>>

\* wait for the name input, fill it, click Join
ZoomFillJoin ==
    /\ bpc = "fillJoin"
    /\ \/ ZoomAdvance("lobby")
       \/ JoinCatch(OtherError) /\ UNCHANGED <<browser, uploadStarted>>
    /\ UNCHANGED <<zoomFrame, lobbyVars>>

\* if (num && Number(num[0]) === 0) keep waiting, else resolveMe(true)
AdmitsAnyCount(r) == r # "none"
Admits(r) == r = "nonzero"

\* one firing of waitInterval: read #wc-footer; a footer without a participant
\* count, a count of 0 and a failed read leave the wait pending.  After a denial
\* the page shows the denial and no meeting footer.
ZoomLobbyPoll ==
    /\ bpc = "lobby"
    /\ lobbyClock + 1 < LobbyPolls
    /\ \E deny \in BOOLEAN, r \in FooterReadings :
         /\ hostDenied' = (hostDenied \/ deny)
         /\ (hostDenied \/ deny) => r = "none"
         /\ IF Admits(r)
              THEN /\ bpc' = "notify"
                   /\ lobbyOutcome' = "admitted"
                   /\ lobbyReading' = r
                   /\ lobbyClock' = 0
              ELSE /\ lobbyClock' = lobbyClock + 1
                   /\ UNCHANGED <<bpc, lobbyOutcome, lobbyReading>>
    /\ UNCHANGED <<presult, perr, everyErr, state, reported, browser, uploadStarted>>
    /\ UNCHANGED zoomFrame

\* waitTimeout fires at wanderingTime and resolves false: read the body text
\* (userDenied is only logged), throw WaitingAtLobbyRetryError(.., false, 0); the
\* catch closes the browser and rethrows whatever was thrown in the try block
ZoomLobbyTimeout ==
    /\ bpc = "lobby"
    /\ lobbyClock + 1 = LobbyPolls
    /\ lobbyClock' = lobbyClock + 1
    /\ lobbyOutcome' = "ceiling"
    /\ \E deny \in BOOLEAN : hostDenied' = (hostDenied \/ deny)
    /\ \E bodyTextRead \in BOOLEAN :
         JoinCatch(IF bodyTextRead THEN ZoomLobbyError ELSE OtherError)
    /\ browser' = "closed"
    /\ UNCHANGED <<uploadStarted, lobbyReading>>
    /\ UNCHANGED zoomFrame

\* device notifications and the OK button (failures absorbed), pushState('joined')
ZoomNotify ==
    /\ bpc = "notify"
    /\ state' = Append(state, "joined")
    /\ bpc' = "recSetup"
    /\ UNCHANGED <<presult, perr, everyErr, reported, browser, uploadStarted>>
    /\ UNCHANGED <<zoomFrame, lobbyVars>>

\* recordMeetingPage: ContextBridgeTask.runAsync and RecordingTask.runAsync
ZoomRecSetup ==
    /\ bpc = "recSetup"
    /\ \/ ZoomAdvance("recording")
       \/ JoinCatch(OtherError) /\ UNCHANGED <<browser, uploadStarted>>
    /\ UNCHANGED <<zoomFrame, lobbyVars>>

\* waitingPromise resolves: its then-callback starts browser.close() (not awaited
\* by join), recordMeetingPage returns, pushState('finished')
ZoomRecordingEnds ==
    /\ bpc = "recording"
    /\ browser' = "closing"
    /\ state' = Append(state, "finished")
    /\ bpc' = "patch"
    /\ UNCHANGED <<presult, perr, everyErr, reported, uploadStarted>>
    /\ UNCHANGED <<zoomFrame, lobbyVars>>

\* the close started by the then-callback completes
BrowserCloseCompletes ==
    /\ browser = "closing"
    /\ browser' = "closed"
    /\ UNCHANGED <<bpc, presult, perr, everyErr, state, reported, uploadStarted>>
    /\ UNCHANGED <<zoomFrame, lobbyVars>>

\* await patchBotStatus({ ..., status: _state }) after joinMeeting returned
ZoomPatchStatus ==
    /\ bpc = "patch"
    /\ reported' = state
    /\ bpc' = "upload"
    /\ uploadStarted' = TRUE
    /\ UNCHANGED <<presult, perr, everyErr, state, browser>>
    /\ UNCHANGED <<zoomFrame, lobbyVars>>

\* handleUpload: await uploader.uploadRecordingToRemoteStorage()
ZoomUpload ==
    /\ bpc = "upload"
    /\ \/ /\ bpc' = "ended"
          /\ presult' = "ok"
          /\ UNCHANGED <<perr, everyErr, state, reported>>
       \/ \E e \in CollabErrors : JoinCatch(e)
    /\ UNCHANGED <<browser, uploadStarted>>
    /\ UNCHANGED <<zoomFrame, lobbyVars>>

\* -------------------------------------------------------------------- Next
Next ==
    \/ \E c \in RestClients, p \in Providers : RestJoinAccepted(c, p)
    \/ \E c \in RestClients : RestJoinBusy(c)
    \/ QueuePush
    \/ \E p \in Providers : QueueConsume(p)
    \/ Release
    \/ JInvoke
    \/ JReturn
    \/ JCatch
    \/ JWake
    \/ PmjSettle
    \/ GenericProcessor
    \/ ZoomLaunch
    \/ ZoomNavigate
    \/ ZoomWebClient
    \/ ZoomContainer
    \/ ZoomFillJoin
    \/ ZoomLobbyPoll
    \/ ZoomLobbyTimeout
    \/ ZoomNotify
    \/ ZoomRecSetup
    \/ ZoomRecordingEnds
    \/ BrowserCloseCompletes
    \/ ZoomPatchStatus
    \/ ZoomUpload

Spec == Init /\ [][Next]_vars

\* ----------------------------------------------------------- observations
\* number of processor invocations among the first n events
InvokesUpTo(ev, n) == Cardinality({i \in 1..n : ev[i] = Invoke})
Invocations == InvokesUpTo(events, Len(events))
Sleeps == {i \in 1..Len(events) : events[i].op = "sleep"}

\* the current attempt of the processor has ended by throwing
AttemptFailed == bpc = "ended" /\ presult = "err"
\* joinMeetWithRetry rejected and every attempt failed with the error e
EveryAttemptFailedWith(e) == jpc = "threw" /\ everyErr = e
\* ZoomBot.join has ended by throwing
ZoomJoinThrew == provider = "zoom" /\ AttemptFailed
\* ZoomBot.join has ended, either way
ZoomJoinEnded == provider = "zoom" /\ bpc = "ended"

RetryableKnown2 == [kind |-> "known", retryable |-> TRUE, maxRetries |-> 2]

\* ------------------------------------------------------------------ claims

C2_RetriedExactlyTwice ==
    (EveryAttemptFailedWith(RetryableKnown2) /\ configRetryCount >= 2) =>
        /\ events = <<Invoke, Sleep(30000), Invoke, Sleep(60000), Invoke>>
        /\ thrown = RetryableKnown2

\* C3: at most one session is in flight, the gate is held exactly while one is,
\* a REST request was accepted (202) only if its handler saw the gate free, and
\* a REST request handled while the gate was held got 409.
C3_SingleSession ==
    /\ Cardinality(inflight) <= 1
    /\ isBusy <=> inflight # {}
    /\ \A c \in RestClients :
         /\ lastStatus[c] = 202 => ~busyWhenHandled[c]
         /\ busyWhenHandled[c] => lastStatus[c] = 409
         /\ c \in inflight => lastStatus[c] = 202

\* C3 witness: a queue-sourced session holds the gate and every REST caller
\* has been answered 409 meanwhile
C3_Witness ==
    /\ isBusy
    /\ current \in QueueMsgs
    /\ \A c \in RestClients : lastStatus[c] = 409

\* C4: when every attempt fails with an unclassified error, the processor has been
\* invoked config.retryCount + 1 times when joinMeetWithRetry rethrows, and what it
\* rethrows is the error of the last attempt.
C4_UnclassifiedRetriedToCeiling ==
    EveryAttemptFailedWith(OtherError) =>
        /\ Invocations = configRetryCount + 1
        /\ thrown = perr

\* C4 witness: the ceiling of 2 has been exhausted by unclassified errors
C4_Witness ==
    /\ EveryAttemptFailedWith(OtherError)
    /\ configRetryCount = 2
    /\ Invocations = 3

\* C5: after an attempt failed with a KnownError that is not retryable,
\* joinMeetWithRetry is either still to handle it or has rethrown it; no sleep and
\* no further invocation follows, whatever retryCount and maxRetries are.
C5_NonRetryableTerminal ==
    (AttemptFailed /\ perr.kind = "known" /\ ~perr.retryable) =>
        /\ jpc \in {"await", "threw"}
        /\ jpc = "threw" => thrown = perr
        /\ events[Len(events)] = Invoke
        /\ Cardinality(Sleeps) = retryCount

\* C5 witness: a non-retryable KnownError with maxRetries to spare has been rethrown
C5_Witness ==
    /\ jpc = "threw"
    /\ thrown.kind = "known"
    /\ ~thrown.retryable
    /\ retryCount + 1 < thrown.maxRetries
    /\ retryCount < configRetryCount

\* C6: every re-invocation of the processor directly follows a sleep, and the sleep
\* before the k-th re-invocation lasted k * 30000 ms.
C6_LinearBackoff ==
    \A i \in 2..Len(events) :
        events[i] = Invoke =>
            events[i - 1] = Sleep(InvokesUpTo(events, i - 1) * 30000)

\* C6 witness: a session with two re-invocations
C6_Witness == Invocations >= 3

\* C7: processMeetingJoin never rejects: whatever joinMeetWithRetry did, its promise
\* is pending or resolved, and the gate is held only while it runs or until the
\* release that follows it has run.
C7_NeverPropagates ==
    /\ pmj \in {"idle", "running", "resolved"}
    /\ jpc \in {"returned", "threw"} => pmj \in {"running", "resolved"}
    /\ isBusy => pmj \in {"running", "resolved"}

\* C7 witness: joinMeetWithRetry threw and processMeetingJoin resolved all the same
C7_Witness ==
    /\ jpc = "threw"
    /\ thrown.kind \in {"lobby", "known", "other"}
    /\ pmj = "resolved"

C9_UploadFailureNotRetried ==
    (ZoomJoinThrew /\ uploadStarted) => jpc # "invoke"

\* C10 (as claimed): whenever ZoomBot.join has ended, the browser launched for the
\* attempt (if any) is closed, or at least its close has been started.
C10_BrowserClosedAtEnd ==
    ZoomJoinEnded => browser \in {"none", "closing", "closed"}

\* the history h1 is a prefix of the history h2
IsPrefix(h1, h2) == Len(h1) <= Len(h2) /\ SubSeq(h2, 1, Len(h1)) = h1

\* C12 (as claimed): the bot is in the lobby wait only before the ceiling; the wait
\* ends as admitted only on a footer reading with a participant count other than
\* 0; otherwise it ends at the ceiling and what is thrown is
\* WaitingAtLobbyRetryError(retryable = false, maxRetries = 0), host denial or not.
C12_LobbyEndsAdmittedOrLobbyError ==
    /\ bpc = "lobby" => lobbyClock < LobbyPolls
    /\ lobbyOutcome = "admitted" => lobbyReading = "nonzero" /\ ~hostDenied
    /\ lobbyOutcome = "ceiling" =>
          lobbyClock = LobbyPolls /\ AttemptFailed /\ perr = ZoomLobbyError

\* C13 (as claimed): once the lobby wait has run to its ceiling, the history of the
\* attempt is [processing, failed] and that is what was reported, no upload was
\* started, and joinMeetWithRetry neither sleeps nor invokes the processor again:
\* a session whose first attempt ended so has invoked the processor once.
C13_CeilingFailsWithoutRetry ==
    lobbyOutcome = "ceiling" =>
        /\ state = <<"processing", "failed">>
        /\ reported = state
        /\ ~uploadStarted
        /\ jpc \in {"await", "threw"}
        /\ retryCount = 0 => Invocations = 1

\* C14 (as claimed): within one session every change of the reported status
\* history extends it: the history reported before is a prefix of the new one.
C14_ReportedHistoryOnlyGrows ==
    [][(current' = current /\ reported # <<>>) => IsPrefix(reported, reported')]_vars

\* C25 (as claimed): a retryable KnownError is bounded by its own maxRetries
\* alone: when every attempt failed with one whose maxRetries is larger than
\* config.retryCount + 1 and joinMeetWithRetry has rethrown, the processor has
\* been invoked maxRetries times (the count at which the code's own test
\* (retryCount + 1) >= maxRetries stops).
C25_KnownBoundedByOwnMaxRetries ==
    ( /\ jpc = "threw"
      /\ everyErr.kind = "known"
      /\ everyErr.retryable
      /\ everyErr.maxRetries > configRetryCount + 1 )
        => Invocations >= everyErr.maxRetries

\* C26 (as claimed): when joinMeetWithRetry has rethrown, no sleep lies between
\* the failed attempt and the rethrow: the last thing it did before was the
\* invocation that failed.
C26_NoSleepBeforeRethrow ==
    jpc = "threw" => events[Len(events)] = Invoke

\* C27: whatever the processor's outcomes are, a session invokes the processor
\* at most config.retryCount + 1 times; after an attempt has succeeded
\* joinMeetWithRetry is about to return or has returned and the last thing it did
\* is the invocation that succeeded (no sleep and no invocation follows it); and
\* it returns only after a successful attempt.
C27_BoundedInvocations ==
    /\ Invocations <= configRetryCount + 1
    /\ (bpc = "ended" /\ presult = "ok")
         => (jpc \in {"await", "returned"} /\ events[Len(events)] = Invoke)
    /\ jpc = "returned" => (bpc = "ended" /\ presult = "ok")

\* C27 witness: attempts failed with different errors, the ceiling of 2 was used
\* up, and the last invocation allowed succeeded
C27_Witness ==
    /\ jpc = "returned"
    /\ everyErr = MixedErrors
    /\ configRetryCount = 2
    /\ Invocations = 3

\* the status histories ZoomBot.join can hold, and those it can report
JoinHistories ==
    {<<"processing">>, <<"processing", "joined">>,
     <<"processing", "joined", "finished">>,
     <<"processing", "failed">>, <<"processing", "joined", "failed">>}
ReportedHistories ==
    {<<"processing", "failed">>, <<"processing", "joined", "failed">>,
     <<"processing", "joined", "finished">>}

\* C28: within one ZoomBot.join call the status history starts as [processing]
\* and every change appends to it; every history given to patchBotStatus is
\* [processing, failed], [processing, joined, failed] or [processing, joined,
\* finished]; 'joined' is in the history only after the lobby wait ended with the
\* admission confirmed.
C28_StatusHistoryShape ==
    /\ [](provider = "zoom" =>
            /\ state # <<>> => state \in JoinHistories
            /\ reported # <<>> => reported \in ReportedHistories
            /\ "joined" \in Range(state) => lobbyOutcome = "admitted")
    /\ [][(provider = "zoom" /\ current' = current /\ events' = events /\ state # <<>>)
            => IsPrefix(state, state')]_vars

\* C28 witness: the upload failed after 'finished' was pushed; the catch block
\* reported the history without adding 'failed'
C28_Witness ==
    /\ provider = "zoom"
    /\ AttemptFailed
    /\ uploadStarted
    /\ state = <<"processing", "joined", "finished">>
    /\ reported = state

\* ===================================================================== RecSpec
\* RecordingTask.execute (the code evaluated in the page) and the wait of
\* recordMeetingPage.  One tick is 2 s, the period of the lone test; the 100 ms
\* period of monitorSilence is scaled to one tick as well.


\* getWaitingPromise(processingTime + duration)
WaitNoCeiling == RecDuration + ProcessingTicks + MaxSetup + 2
WaitDeadline == ProcessingTicks + RecDuration

\* the clock stops here
MaxTime == RecDuration + ProcessingTicks + MaxSetup + 1

PageAlive == recBrowser # "closed"
Due(t) == t # NoTimer /\ t <= now

\* config.activateInactivityDetectionAfter, below and above the duration
ActivationDelays == {ActivateAfter, RecDuration + 1}

\* stopTheRecording without clearTimeout(inactivityDetectionTimeout)
StopKeepsDetectionTimer(r, stopThrows, cause) ==
    LET called == [r EXCEPT !.stopCalls = @ + 1,
                            !.stopCause = IF @ = "none" THEN cause ELSE @,
                            !.stoppedAt = IF @ = NoTimer THEN now ELSE @]
    IN IF r.mediaRecorder = "inactive" /\ stopThrows
         THEN called
         ELSE [called EXCEPT !.mediaRecorder = "inactive",
                             !.timeoutId = NoTimer,
                             !.meetEnds = @ + 1]

\* stopTheRecording, called for the given cause.  mediaRecorder.stop() on a
\* recorder that is already inactive throws InvalidStateError in the builds that
\* follow the older MediaRecorder specification and returns in the others; when
\* it throws, the rest of stopTheRecording is skipped.
StopTheRecording(r, stopThrows, cause) ==
    LET called == [r EXCEPT !.stopCalls = @ + 1,
                            !.stopCause = IF @ = "none" THEN cause ELSE @,
                            !.stoppedAt = IF @ = NoTimer THEN now ELSE @]
    IN IF r.mediaRecorder = "inactive" /\ stopThrows
         THEN called
         ELSE [called EXCEPT !.mediaRecorder = "inactive",
                             !.timeoutId = NoTimer,
                             !.inactivityDetectionTimeout = NoTimer,
                             !.meetEnds = @ + 1]

\* audioActivity values a check can read: none, just below, at and far above
\* the threshold
ActivityLevels == {0, SilenceThreshold - 1, SilenceThreshold, 255}

\* a check that counts activity at the threshold as silence
IsSilentAtThreshold(activity) == activity <= SilenceThreshold

\* if (audioActivity < silenceThreshold)
IsSilent(activity) == activity < SilenceThreshold

\* one run of monitorSilence at time t with the given audioActivity.  The fields
\* lastCheck, silentSince and silenceStoppedAt record what happened: whether the
\* check read activity at or above the threshold, when the current run of checks
\* below the threshold began, and when a check called stopTheRecording.
MonitorSilence(r, activity, stopThrows, t) ==
    LET loud == activity >= SilenceThreshold
        seen == [r EXCEPT !.lastCheck = IF loud THEN "loud" ELSE "silent",
                          !.silentSince = IF loud THEN NoTimer
                                          ELSE IF @ = NoTimer THEN t ELSE @]
        counted == IF IsSilent(activity)
                     THEN [seen EXCEPT !.silenceDuration = @ + 1]
                     ELSE [seen EXCEPT !.silenceDuration = 0]
        after == IF IsSilent(activity) /\ counted.silenceDuration >= InactivityLimit
                   THEN StopTheRecording([counted EXCEPT !.monitor = FALSE,
                                                         !.loneTest = NoTimer,
                                                         !.silenceStoppedAt = t],
                                         stopThrows, "silence")
                   ELSE counted
    IN [after EXCEPT !.silenceTimer = IF after.monitor THEN t + 1 ELSE NoTimer]

\* what the lone test reads from the participants button: no button or no number,
\* more than one participant, at most one
ParticipantReadings == {"unknown", "several", "alone"}

\* one run of the loneTest interval callback at time t: the host-ended branch,
\* then the participant count, in the same run
LoneTest(r, shouldEndMeeting, participants, stopThrows, t) ==
    LET rearmed == [r EXCEPT !.loneTest = t + 1]
        afterOk == IF shouldEndMeeting
                     THEN StopTheRecording([rearmed EXCEPT !.loneTest = NoTimer,
                                                           !.monitor = FALSE],
                                           stopThrows, "host")
                     ELSE rearmed
    IN IF participants = "alone"
         THEN StopTheRecording([afterOk EXCEPT !.loneTest = NoTimer,
                                               !.monitor = FALSE],
                               stopThrows, "lone")
         ELSE afterOk

\* startRecording: returns at once without getDisplayMedia support; rejects when
\* getDisplayMedia rejects; else starts the recorder and arms the two timers
StartRecording ==
    /\ rpc = "init"
    /\ \E supported, granted \in BOOLEAN :
         IF ~supported
           THEN rpc' = "returned" /\ UNCHANGED rec
           ELSE IF ~granted
             THEN rpc' = "rejected" /\ UNCHANGED rec
             ELSE /\ rpc' = "returned"
                  /\ \E delay \in ActivationDelays :
                       rec' = [rec EXCEPT !.mediaRecorder = "recording",
                                          !.startedAt = now,
                                          !.activateAfter = delay,
                                          !.inactivityDetectionTimeout = now + delay,
                                          !.timeoutId = now + RecDuration]
    /\ UNCHANGED <<now, meetEndsHandled, waitingPromise, recBrowser, notRec>>

\* timeoutId fires: stopTheRecording()
DurationTimer ==
    /\ PageAlive
    /\ Due(rec.timeoutId)
    /\ rec.stopCalls < MaxStops
    /\ \E stopThrows \in BOOLEAN :
         rec' = StopTheRecording([rec EXCEPT !.timeoutId = NoTimer], stopThrows, "duration")
    /\ UNCHANGED <<now, rpc, meetEndsHandled, waitingPromise, recBrowser, notRec>>

\* inactivityDetectionTimeout fires: detectLoneParticipant() arms the interval,
\* detectIncrediblySilentMeeting() runs monitorSilence once
ActivationTimer ==
    /\ PageAlive
    /\ Due(rec.inactivityDetectionTimeout)
    /\ \E activity \in ActivityLevels, stopThrows \in BOOLEAN :
         /\ activity > 0 => rec.mediaRecorder = "recording"
         /\ rec' = MonitorSilence([rec EXCEPT !.inactivityDetectionTimeout = NoTimer,
                                              !.detectorsStartedAt = now,
                                              !.loneTest = now + 1],
                                  activity, stopThrows, now)
    /\ UNCHANGED <<now, rpc, meetEndsHandled, waitingPromise, recBrowser, notRec>>

\* the loneTest interval fires
LoneTestFires ==
    /\ PageAlive
    /\ Due(rec.loneTest)
    /\ rec.stopCalls < MaxStops
    /\ \E shouldEndMeeting, stopThrows \in BOOLEAN, participants \in ParticipantReadings :
         rec' = LoneTest(rec, shouldEndMeeting, participants, stopThrows, now)
    /\ UNCHANGED <<now, rpc, meetEndsHandled, waitingPromise, recBrowser, notRec>>

\* the timeout queued by monitorSilence fires; the tracks of a stopped recording
\* are stopped and give no audio
SilenceCheck ==
    /\ PageAlive
    /\ Due(rec.silenceTimer)
    /\ rec.stopCalls < MaxStops
    /\ \E activity \in ActivityLevels, stopThrows \in BOOLEAN :
         /\ activity > 0 => rec.mediaRecorder = "recording"
         /\ rec' = MonitorSilence(rec, activity, stopThrows, now)
    /\ UNCHANGED <<now, rpc, meetEndsHandled, waitingPromise, recBrowser, notRec>>

\* the waiting promise resolves; the then-callback, which recordMeetingPage
\* registers once RecordingTask.runAsync has returned, starts browser.close()
ResolveWait ==
    /\ waitingPromise' = "resolved"
    /\ recBrowser' = IF waitingPromise = "pending" /\ rpc = "returned"
                       THEN "closing" ELSE recBrowser

\* the timer of getWaitingPromise fires
WaitTimeout ==
    /\ waitingPromise = "pending"
    /\ now >= WaitDeadline
    /\ ResolveWait
    /\ UNCHANGED <<now, rpc, rec, meetEndsHandled, notRec>>

\* the Node side handles one screenAppMeetEnd call: it resolves the waiting promise
MeetEndHandled ==
    /\ meetEndsHandled < rec.meetEnds
    /\ meetEndsHandled' = meetEndsHandled + 1
    /\ ResolveWait
    /\ UNCHANGED <<now, rpc, rec, notRec>>

\* browser.close() completes: the page and its timers are gone
RecBrowserCloses ==
    /\ recBrowser = "closing"
    /\ recBrowser' = "closed"
    /\ UNCHANGED <<now, rpc, rec, meetEndsHandled, waitingPromise, notRec>>

\* 2 s pass; every timer that is due has run first
RecTick ==
    /\ now < MaxTime
    /\ rpc = "init" => now < MaxSetup
    /\ PageAlive => /\ ~Due(rec.timeoutId)
                    /\ ~Due(rec.inactivityDetectionTimeout)
                    /\ ~Due(rec.loneTest)
                    /\ ~Due(rec.silenceTimer)
    /\ waitingPromise = "pending" => now < WaitDeadline
    /\ now' = now + 1
    /\ UNCHANGED <<rpc, rec, meetEndsHandled, waitingPromise, recBrowser, notRec>>

RecNext ==
    \/ StartRecording
    \/ DurationTimer
    \/ ActivationTimer
    \/ LoneTestFires
    \/ SilenceCheck
    \/ WaitTimeout
    \/ MeetEndHandled
    \/ RecBrowserCloses
    \/ RecTick

RecSpec == PartsInit /\ [][RecNext]_vars

\* C11 (as claimed): stopTheRecording runs at most once per recording and
\* screenAppMeetEnd is emitted at most once, whatever the end triggers and their
\* timing.
C11_StopRunsOnce == rec.stopCalls <= 1 /\ rec.meetEnds <= 1

\* C15: once the recorder has started, the wait of recordMeetingPage is over by
\* maxRecordingDuration plus the processing allowance after the start; while the
\* page lives the recorder is not left recording past maxRecordingDuration, and a
\* stop caused by the duration timer happens exactly then; when the wait is over
\* the browser is being closed or closed.
C15_RecordingPhaseBounded ==
    rec.startedAt # NoTimer =>
        /\ waitingPromise = "pending" =>
              /\ now <= RecDuration + ProcessingTicks
              /\ now - rec.startedAt <= RecDuration + ProcessingTicks
        /\ (PageAlive /\ rec.mediaRecorder = "recording") =>
              now <= rec.startedAt + RecDuration
        /\ rec.stopCause = "duration" => rec.stoppedAt = rec.startedAt + RecDuration
        /\ waitingPromise = "resolved" => recBrowser \in {"closing", "closed"}

\* C15 witness: no end condition was detected, the duration timer stopped the
\* recording, its signal was still unhandled when the timer of the waiting promise
\* ended the wait at the ceiling, and the browser is closed
C15_Witness ==
    /\ rec.stopCause = "duration"
    /\ rec.stopCalls = 1
    /\ meetEndsHandled = 0
    /\ waitingPromise = "resolved"
    /\ now = RecDuration + ProcessingTicks
    /\ recBrowser = "closed"

DetectorCauses == {"lone", "host", "silence"}

\* C23: the detectors start no earlier than activateInactivityDetectionAfter
\* after the recording start, so a lone-participant, host-ended or silence stop
\* happens no earlier; and when the recording was stopped before that time the
\* detection-start timer is cancelled and the detectors never start.
C23_NoDetectionBeforeActivation ==
    rec.startedAt # NoTimer =>
        /\ rec.detectorsStartedAt # NoTimer
             => rec.detectorsStartedAt >= rec.startedAt + rec.activateAfter
        /\ (rec.loneTest # NoTimer \/ rec.silenceTimer # NoTimer)
             => rec.detectorsStartedAt # NoTimer
        /\ rec.stopCause \in DetectorCauses
             => rec.stoppedAt >= rec.startedAt + rec.activateAfter
        /\ (rec.stoppedAt # NoTimer /\ rec.stoppedAt < rec.startedAt + rec.activateAfter)
             => /\ rec.inactivityDetectionTimeout = NoTimer
                /\ rec.detectorsStartedAt = NoTimer

\* the duration timer stopped the recording before the detection delay was over
\* and the time of the detection start has passed with the page still alive
C23_Witness ==
    /\ rec.stopCause = "duration"
    /\ rec.stoppedAt < rec.startedAt + rec.activateAfter
    /\ now >= rec.startedAt + rec.activateAfter
    /\ PageAlive

\* C24: a check of monitorSilence stops the recording only when it ends a run of
\* consecutive checks below the threshold that is at least inactivityLimit long
\* (one check per period); after a check that read activity at or above the
\* threshold the accumulated silence is zero.
C24_SilenceNeedsFullRun ==
    /\ rec.lastCheck = "loud" => rec.silenceDuration = 0
    /\ rec.silenceStoppedAt # NoTimer =>
          /\ rec.silentSince # NoTimer
          /\ rec.silenceStoppedAt - rec.silentSince + 1 >= InactivityLimit

\* silence stopped the recording after an earlier check had read activity at the
\* threshold or above
C24_Witness ==
    /\ rec.stopCause = "silence"
    /\ rec.silenceStoppedAt # NoTimer
    /\ rec.silentSince > rec.detectorsStartedAt

\* C29 (as claimed): once stopTheRecording has run, whichever trigger called it,
\* the lone-participant interval is cleared, a check of the silence monitor that
\* is still pending schedules no further one (monitor is off), and the duration
\* timer and the detection-start timer are cancelled.
C29_NoDetectorAfterStop ==
    rec.stopCalls > 0 =>
        /\ rec.loneTest = NoTimer
        /\ rec.silenceTimer # NoTimer => ~rec.monitor
        /\ rec.timeoutId = NoTimer
        /\ rec.inactivityDetectionTimeout = NoTimer

\* =================================================================== ChunkSpec
\* mediaRecorder.ondataavailable and sendChunkToServer.  The handler is async
\* and MediaRecorder does not wait for it: each chunk's arrayBuffer() read and
\* each screenAppSendData call is pending on its own and they settle in any order.

Chunks == 1..NumChunks

\* the handler goes on with every chunk, empty or not
HasDataAlways(size) == TRUE

\* if (!event.data.size) return
HasData(size) == size # 0

\* MediaRecorder fires dataavailable with the next chunk, empty or not: the
\* handler returns for an empty one, else it starts event.data.arrayBuffer()
DataAvailable ==
    /\ produced < NumChunks
    /\ produced' = produced + 1
    /\ \E size \in {0, 1} :
         /\ emptyChunks' = IF size = 0 THEN emptyChunks \cup {produced + 1} ELSE emptyChunks
         /\ reading' = IF HasData(size) THEN reading \cup {produced + 1} ELSE reading
    /\ UNCHANGED <<sending, sent, chunkErrors, notChunk>>

\* arrayBuffer() of chunk k settles: on success the handler converts to base64 and
\* calls screenAppSendData(slightlySecretId, base64); on failure the catch logs
ArrayBufferSettles(k) ==
    /\ k \in reading
    /\ reading' = reading \ {k}
    /\ \/ /\ sent' = Append(sent, k)
          /\ sending' = sending \cup {k}
          /\ UNCHANGED chunkErrors
       \/ /\ chunkErrors' = chunkErrors \cup {k}
          /\ UNCHANGED <<sent, sending>>
    /\ UNCHANGED <<produced, emptyChunks, notChunk>>

\* the screenAppSendData call of chunk k settles; a rejection is caught and logged
SendSettles(k) ==
    /\ k \in sending
    /\ sending' = sending \ {k}
    /\ \/ UNCHANGED chunkErrors
       \/ chunkErrors' = chunkErrors \cup {k}
    /\ UNCHANGED <<produced, emptyChunks, reading, sent, notChunk>>

ChunkNext ==
    \/ DataAvailable
    \/ \E k \in Chunks : ArrayBufferSettles(k)
    \/ \E k \in Chunks : SendSettles(k)

ChunkSpec == PartsInit /\ [][ChunkNext]_vars

\* C16 (as claimed): the chunks given to screenAppSendData are in the order in
\* which MediaRecorder produced them.
C16_ChunksSentInOrder ==
    \A i, j \in 1..Len(sent) : i < j => sent[i] < sent[j]

\* C37: an empty chunk is neither read nor sent; and after an error on one chunk
\* (caught, so recorded and nothing else changed) the recorder still delivers
\* the next chunk to the handler and every chunk being read can still be sent.
C37_EmptySkippedErrorsCaught ==
    /\ \A k \in emptyChunks :
         k \notin (reading \cup sending \cup chunkErrors) /\ k \notin Range(sent)
    /\ chunkErrors # {} =>
         /\ produced < NumChunks => ENABLED DataAvailable
         /\ \A k \in reading : ENABLED (ArrayBufferSettles(k) /\ sent' = Append(sent, k))

\* C37 witness: the first chunk failed before it was sent, the second was empty,
\* the third was sent and its send settled without error
C37_Witness ==
    /\ 1 \in chunkErrors /\ 1 \notin Range(sent)
    /\ 2 \in emptyChunks
    /\ sent = <<3>>
    /\ 3 \notin (sending \cup chunkErrors)

\* ==================================================================== LiveSpec
\* YouTubeLiveStreamer (start, writeChunk, stop) as the live-restream sink of the
\* chunk fan-out, next to the durable sink.

\* stdin of process p takes writes: the process runs and stdin was not ended
StdinOpen(p) == lstate[p] = "running" /\ p \notin stdinEnded

\* start() as the sinks see it: if (this.process) return; else spawn ffmpeg.  A
\* failed spawn emits 'error' and no 'exit'; the error handler leaves
\* this.process set.
LiveStart ==
    /\ lproc = 0
    /\ lspawns < MaxSpawns
    /\ lspawns' = lspawns + 1
    /\ lproc' = lspawns + 1
    /\ \E spawned \in BOOLEAN :
         lstate' = [lstate EXCEPT ![lspawns + 1] = IF spawned THEN "running" ELSE "failed"]
    /\ UNCHANGED <<lkilled, lstarts, stdinLog, stdinEnded, needDrain, wc, stops, sigterms,
                   received, durable, sealed, notLive>>

\* start() with its promise, the c-th call: if (this.process) return, which
\* resolves the promise of the async function; else spawn ffmpeg, register the
\* handlers and arm the 2 s timer; the 'error' handler of a failed spawn rejects
LiveStartCall(c) ==
    /\ lstarts[c].st = "none"
    /\ \A d \in StartCalls : d < c => lstarts[d].st # "none"
    /\ IF lproc # 0
         THEN /\ lstarts' = [lstarts EXCEPT ![c] =
                   [st |-> "resolved", proc |-> 0, sawRunning |-> lstate[lproc] = "running"]]
              /\ UNCHANGED <<lspawns, lproc, lstate>>
         ELSE /\ lspawns < MaxSpawns
              /\ lspawns' = lspawns + 1
              /\ lproc' = lspawns + 1
              /\ \E spawned \in BOOLEAN :
                   /\ lstate' = [lstate EXCEPT ![lspawns + 1] =
                                   IF spawned THEN "running" ELSE "failed"]
                   /\ lstarts' = [lstarts EXCEPT ![c] =
                                   [st |-> IF spawned THEN "pending" ELSE "rejected",
                                    proc |-> lspawns + 1, sawRunning |-> FALSE]]
    /\ UNCHANGED <<lkilled, stdinLog, stdinEnded, needDrain, wc, stops, sigterms, received,
                   durable, sealed, notLive>>

\* if (this.process && !this.process.killed && this.process.exitCode === null)
LiveStarted(p) == p # 0 /\ ~lkilled[p] /\ lstate[p] = "running"

\* the 2 s timer of start call c fires with the promise not settled: resolve if
\* the process now referenced counts as started, else reject (with the promise
\* settled the timer does nothing)
LiveStartTimer(c) ==
    /\ lstarts[c].st = "pending"
    /\ lstarts' = [lstarts EXCEPT
         ![c].st = IF LiveStarted(lproc) THEN "resolved" ELSE "rejected",
         ![c].sawRunning = (lstate[lstarts[c].proc] = "running")]
    /\ UNCHANGED <<lproc, lspawns, lstate, lkilled, stdinLog, stdinEnded, needDrain, wc,
                   stops, sigterms, received, durable, sealed, notLive>>

\* if (canWrite) resolve(); else stdin.once('drain', () => resolve())
WriteOutcomeNoBackpressure(canWrite) == "resolved"
WriteOutcome(canWrite) == IF canWrite THEN "resolved" ELSE "waitDrain"

\* writeChunk(chunk) for chunk k: throws (rejects) without a process; else
\* stdin.write(chunk) at once.  A write to a stdin that was ended or whose process
\* is gone returns false and writes nothing; while a drain is awaited the buffer
\* is over its high-water mark and write returns false.
WriteChunk(k) ==
    IF lproc = 0
      THEN /\ wc' = [wc EXCEPT ![k] = [NoWrite EXCEPT !.st = "rejected"]]
           /\ UNCHANGED <<stdinLog, needDrain>>
      ELSE \E canWrite, writeThrows \in BOOLEAN :
             /\ (needDrain \/ ~StdinOpen(lproc)) => ~canWrite
             /\ writeThrows => ~canWrite
             /\ stdinLog' = IF StdinOpen(lproc) /\ ~writeThrows
                              THEN Append(stdinLog, [p |-> lproc, w |-> k])
                              ELSE stdinLog
             /\ needDrain' = (needDrain \/ (StdinOpen(lproc) /\ ~writeThrows /\ ~canWrite))
             /\ wc' = [wc EXCEPT ![k] =
                         [st |-> IF writeThrows THEN "rejected" ELSE WriteOutcome(canWrite),
                          canWrite |-> canWrite, drained |-> FALSE, proc |-> lproc]]

\* the fan-out of the chunk pipeline: the durable sink never waits for the live sink
LiveBlocksDurableWhileStalled == \E k \in LiveChunks : wc[k].st = "waitDrain"
LiveBlocksDurable == FALSE

\* the fan-out receives the next chunk: append to the durable sink, hand the chunk
\* to writeChunk without awaiting it; a rejection is logged
PipelineChunk ==
    /\ received < NumLiveChunks
    /\ ~sealed
    /\ received' = received + 1
    /\ durable' = IF LiveBlocksDurable THEN durable ELSE Append(durable, received + 1)
    /\ WriteChunk(received + 1)
    /\ UNCHANGED <<lproc, lspawns, lstate, lkilled, stdinEnded, stops, sigterms, sealed,
                   lstarts, notLive>>

\* stdin emits 'drain': every once('drain') listener resolves its call.  No drain
\* is emitted once stdin was ended.
LiveDrain ==
    /\ needDrain
    /\ lproc # 0
    /\ StdinOpen(lproc)
    /\ needDrain' = FALSE
    /\ wc' = [k \in LiveChunks |->
                IF wc[k].st = "waitDrain" /\ wc[k].proc = lproc
                  THEN [wc[k] EXCEPT !.st = "resolved", !.drained = TRUE]
                  ELSE wc[k]]
    /\ UNCHANGED <<lproc, lspawns, lstate, lkilled, stdinLog, stdinEnded, stops, sigterms,
                   received, durable, sealed, lstarts, notLive>>

\* proc.kill('SIGTERM') by stop call c: delivered (and killed set) only while the
\* process runs
Kill(p, c, why) ==
    IF lstate[p] = "running"
      THEN /\ sigterms' = Append(sigterms, [p |-> p, call |-> c, why |-> why])
           /\ lkilled' = [lkilled EXCEPT ![p] = TRUE]
      ELSE UNCHANGED <<sigterms, lkilled>>

\* catch (error) { proc.kill('SIGTERM') }: only when writing the quit command threw
KillAtOnceAlways(quitThrew) == TRUE
KillAtOnce(quitThrew) == quitThrew

\* stop(), call c: returns at once without a process; else writes 'q' and ends
\* stdin (SIGTERM at once if that throws), arms the 15 s timer, waits for 'exit'
LiveStop(c) ==
    /\ stops[c].st = "none"
    /\ \A d \in StopCalls : d < c => stops[d].st # "none"
    /\ IF lproc = 0
         THEN /\ stops' = [stops EXCEPT ![c] = [NoStop EXCEPT !.st = "resolved"]]
              /\ UNCHANGED <<stdinLog, stdinEnded, sigterms, lkilled>>
         ELSE \E quitThrew \in BOOLEAN :
                /\ stops' = [stops EXCEPT ![c] =
                               [st |-> "pending", proc |-> lproc,
                                sawRunning |-> lstate[lproc] = "running",
                                quitThrew |-> quitThrew, timer |-> "armed"]]
                /\ stdinLog' = IF ~quitThrew /\ StdinOpen(lproc)
                                 THEN Append(stdinLog, [p |-> lproc, w |-> QuitCmd])
                                 ELSE stdinLog
                /\ stdinEnded' = IF quitThrew THEN stdinEnded ELSE stdinEnded \cup {lproc}
                /\ IF KillAtOnce(quitThrew)
                     THEN Kill(lproc, c, "catch")
                     ELSE UNCHANGED <<sigterms, lkilled>>
    /\ UNCHANGED <<lproc, lspawns, lstate, needDrain, wc, received, durable, sealed,
                   lstarts, notLive>>

\* the 15 s timer of stop call c fires: if (proc && !proc.killed) proc.kill('SIGTERM')
LiveGraceExpires(c) ==
    /\ stops[c].timer = "armed"
    /\ stops' = [stops EXCEPT ![c].timer = "fired"]
    /\ IF ~lkilled[stops[c].proc]
         THEN Kill(stops[c].proc, c, "grace")
         ELSE UNCHANGED <<sigterms, lkilled>>
    /\ UNCHANGED <<lproc, lspawns, lstate, stdinLog, stdinEnded, needDrain, wc, received,
                   durable, sealed, lstarts, notLive>>

\* process p exits ('exit' is emitted): the handler of start rejects the start
\* promise if the code is neither 0 nor null and the promise is not settled, and
\* sets this.process = null; the handler of every stop waiting on p clears its
\* timer, sets this.process = null and resolves
LiveProcExits(p) ==
    /\ lstate[p] = "running"
    /\ lstate' = [lstate EXCEPT ![p] = "exited"]
    /\ \E how \in ExitKinds :
         lstarts' = [c \in StartCalls |->
                       IF lstarts[c].proc = p /\ lstarts[c].st = "pending" /\ how = "nonzero"
                         THEN [lstarts[c] EXCEPT !.st = "rejected"]
                         ELSE lstarts[c]]
    /\ lproc' = 0
    /\ stops' = [c \in StopCalls |->
                   IF stops[c].st = "pending" /\ stops[c].proc = p
                     THEN [stops[c] EXCEPT !.st = "resolved",
                                           !.timer = IF @ = "armed" THEN "cleared" ELSE @]
                     ELSE stops[c]]
    /\ UNCHANGED <<lspawns, lkilled, stdinLog, stdinEnded, needDrain, wc, sigterms,
                   received, durable, sealed, notLive>>

\* stopping: once the stop of the live sink was requested the fan-out finalizes
\* the durable sink
SealDurable ==
    /\ stops[1].st # "none"
    /\ ~sealed
    /\ sealed' = TRUE
    /\ UNCHANGED <<lproc, lspawns, lstate, lkilled, stdinLog, stdinEnded, needDrain, wc,
                   stops, sigterms, received, durable, lstarts, notLive>>

LiveNext ==
    \/ LiveStart
    \/ PipelineChunk
    \/ LiveDrain
    \/ \E c \in StopCalls : LiveStop(c)
    \/ \E c \in StopCalls : LiveGraceExpires(c)
    \/ \E p \in LiveProcs : LiveProcExits(p)
    \/ SealDurable

LiveSpec == PartsInit /\ [][LiveNext]_vars

\* Timers that are armed fire, a drain that is due is emitted, and a running
\* process ends at some time; when start, writeChunk and stop are called is up to
\* the caller.
LiveFairness ==
    /\ \A c \in StopCalls : WF_vars(LiveGraceExpires(c))
    /\ \A p \in LiveProcs : WF_vars(LiveProcExits(p))
    /\ WF_vars(LiveDrain)

LiveFairSpec == PartsInit /\ [][LiveNext]_vars /\ LiveFairness

\* start() with its promise, next to the exits of the process and to stop();
\* no chunk is written
LiveStartNext ==
    \/ \E c \in StartCalls : LiveStartCall(c)
    \/ \E c \in StartCalls : LiveStartTimer(c)
    \/ \E c \in StopCalls : LiveStop(c)
    \/ \E c \in StopCalls : LiveGraceExpires(c)
    \/ \E p \in LiveProcs : LiveProcExits(p)

LiveStartSpec == PartsInit /\ [][LiveStartNext]_vars

\* the chunks written to stdin, in write order
ChunksWritten == SelectSeq(stdinLog, LAMBDA e : e.w # QuitCmd)
\* SIGTERM signals sent by stop call c
SigtermsOf(c) == {i \in 1..Len(sigterms) : sigterms[i].call = c}

C32_EveryLiveStopResolves ==
    \A c \in StopCalls : (stops[c].st = "pending") ~> (stops[c].st = "resolved")

\* C33 (as claimed): every writeChunk call settles at some time: a call that
\* waits for 'drain' is resolved or rejected, also when the process exits or
\* stop() is called before stdin drains.
C33_EveryWriteSettles ==
    \A k \in LiveChunks :
        (wc[k].st = "waitDrain") ~> (wc[k].st \in {"resolved", "rejected"})

\* C34 (as claimed): the streamer's process reference is non-null only while the
\* process it refers to is alive; after an exit or a failed spawn it is null.
C34_ReferenceOnlyWhileAlive ==
    lproc # 0 => lstate[lproc] = "running"

\* ====================================================================== FfSpec
\* FFmpegRecorder: start (the spawn and the exit handler) and stop.

\* ChildProcess.exitCode !== null: the process exited with a code, or the spawn
\* failed; a process ended by a signal keeps exitCode null
HasExitCode(p) == ffstate[p] \in {"exited", "failed"}
FfGone(p) == ffstate[p] \in {"exited", "signalled", "failed"}

\* the object's configuration, fixed by the constructor and first looked at by
\* start
ConfigSeen(chosen) == IF ffconfig = "unset" THEN chosen ELSE ffconfig

\* start(), the c-th call: rejects without spawning when the configuration gives
\* no output; else this.ffmpegProcess = spawn('ffmpeg', ...), the handlers are
\* registered and the 2 s timer is armed.  A failed spawn emits 'error' and no
\* 'exit'; the error handler rejects.
FfStart(c) ==
    /\ ffstarts[c].st = "none"
    /\ \A d \in FfProcs : d < c => ffstarts[d].st # "none"
    /\ \E chosen \in {"ok", "missing"}, spawned \in BOOLEAN :
         /\ ffconfig' = ConfigSeen(chosen)
         /\ IF ConfigSeen(chosen) = "missing"
              THEN /\ ffstarts' = [ffstarts EXCEPT ![c] = [NoFfStart EXCEPT !.st = "rejected"]]
                   /\ UNCHANGED <<ffspawns, ffmpegProcess, ffstate>>
              ELSE /\ ffspawns' = ffspawns + 1
                   /\ ffmpegProcess' = c
                   /\ ffstate' = [ffstate EXCEPT ![c] = IF spawned THEN "running" ELSE "failed"]
                   /\ ffstarts' = [ffstarts EXCEPT ![c] =
                        [st |-> IF spawned THEN "pending" ELSE "rejected",
                         spawned |-> TRUE, timer |-> "armed", ranAtTimer |-> FALSE]]
    /\ UNCHANGED <<ffkilled, ffstdin, ffstops, ffsignals, notFf>>

\* if (this.ffmpegProcess && !this.ffmpegProcess.killed &&
\*     this.ffmpegProcess.exitCode === null)
Started(p) == p # 0 /\ ~ffkilled[p] /\ ~HasExitCode(p)

\* the 2 s timer of start call c fires: nothing if the promise is settled; else
\* resolve if the process counts as started, else reject
FfStartTimer(c) ==
    /\ ffstarts[c].timer = "armed"
    /\ ffstarts' = [ffstarts EXCEPT
         ![c].timer = "fired",
         ![c].ranAtTimer = (ffstate[c] = "running"),
         ![c].st = IF @ # "pending" THEN @
                   ELSE IF Started(ffmpegProcess) THEN "resolved" ELSE "rejected"]
    /\ UNCHANGED <<ffmpegProcess, ffspawns, ffstate, ffkilled, ffstdin, ffstops, ffconfig,
                   ffsignals, notFf>>

\* ChildProcess.kill(sig): delivers the signal and sets killed only while the
\* process runs
FfKill(killed, signals, p, c, sig) ==
    IF ffstate[p] = "running"
      THEN [killed |-> [killed EXCEPT ![p] = TRUE],
            signals |-> Append(signals, [p |-> p, call |-> c, sig |-> sig])]
      ELSE [killed |-> killed, signals |-> signals]

\* "If already exited": if (this.ffmpegProcess.killed || exitCode !== null)
AlreadyExited(killed, p) == killed[p] \/ HasExitCode(p)

\* stop(), call c: resolves at once without a process; else writes 'q' and ends
\* stdin (SIGTERM if that throws), arms the 15 s timeout, registers the exit
\* listener, then resolves at once if the process counts as already exited
FfStop(c) ==
    /\ ffstops[c].st = "none"
    /\ \A d \in FfStops : d < c => ffstops[d].st # "none"
    /\ IF ffmpegProcess = 0
         THEN /\ ffstops' = [ffstops EXCEPT ![c] = [NoFfStop EXCEPT !.st = "resolved"]]
              /\ UNCHANGED <<ffmpegProcess, ffstdin, ffkilled, ffsignals>>
         ELSE \E quitThrew \in BOOLEAN :
                LET p == ffmpegProcess
                    k == IF quitThrew
                           THEN FfKill(ffkilled, ffsignals, p, c, "SIGTERM")
                           ELSE [killed |-> ffkilled, signals |-> ffsignals]
                    done == AlreadyExited(k.killed, p)
                IN /\ ffstdin' = IF quitThrew \/ ffstate[p] # "running"
                                   THEN ffstdin
                                   ELSE [ffstdin EXCEPT ![p] = @ + 1]
                   /\ ffkilled' = k.killed
                   /\ ffsignals' = k.signals
                   /\ ffmpegProcess' = IF done THEN 0 ELSE ffmpegProcess
                   /\ ffstops' = [ffstops EXCEPT ![c] =
                        [st |-> IF done THEN "resolved" ELSE "pending",
                         proc |-> p,
                         sawRunning |-> ffstate[p] = "running",
                         quitThrew |-> quitThrew,
                         timeout |-> IF done THEN "cleared" ELSE "armed",
                         killTimer |-> "none"]]
    /\ UNCHANGED <<ffspawns, ffstate, ffstarts, ffconfig, notFf>>

\* the 15 s timeout of stop call c fires: if (this.ffmpegProcess && !killed &&
\* !resolved) { kill('SIGTERM'); arm the 5 s timer }
FfGraceExpires(c) ==
    /\ ffstops[c].timeout = "armed"
    /\ IF ffmpegProcess # 0 /\ ~ffkilled[ffmpegProcess] /\ ffstops[c].st # "resolved"
         THEN LET k == FfKill(ffkilled, ffsignals, ffmpegProcess, c, "SIGTERM")
              IN /\ ffkilled' = k.killed
                 /\ ffsignals' = k.signals
                 /\ ffstops' = [ffstops EXCEPT ![c].timeout = "fired",
                                               ![c].killTimer = "armed"]
         ELSE /\ ffstops' = [ffstops EXCEPT ![c].timeout = "fired"]
              /\ UNCHANGED <<ffkilled, ffsignals>>
    /\ UNCHANGED <<ffmpegProcess, ffspawns, ffstate, ffstdin, ffstarts, ffconfig, notFf>>

\* the 5 s timer of stop call c fires: if (this.ffmpegProcess && !killed &&
\* !resolved) kill('SIGKILL')
FfKillTimer(c) ==
    /\ ffstops[c].killTimer = "armed"
    /\ ffstops' = [ffstops EXCEPT ![c].killTimer = "fired"]
    /\ IF ffmpegProcess # 0 /\ ~ffkilled[ffmpegProcess] /\ ffstops[c].st # "resolved"
         THEN LET k == FfKill(ffkilled, ffsignals, ffmpegProcess, c, "SIGKILL")
              IN ffkilled' = k.killed /\ ffsignals' = k.signals
         ELSE UNCHANGED <<ffkilled, ffsignals>>
    /\ UNCHANGED <<ffmpegProcess, ffspawns, ffstate, ffstdin, ffstarts, ffconfig, notFf>>

\* this.ffmpegProcess after the 'exit' of p: the listener of a stop that has not
\* resolved sets it to null
ExitListenerRef(p) ==
    IF \E c \in FfStops : ffstops[c].st = "pending" /\ ffstops[c].proc = p
      THEN 0 ELSE ffmpegProcess

\* process p exits with a code or is ended by a signal ('exit' is emitted): the
\* handler of start calls exitCallback, rejects the start promise if the code is
\* neither 0 nor null and the promise is not settled, and leaves
\* this.ffmpegProcess alone; the listener of every stop that has not resolved
\* clears its timeout, sets this.ffmpegProcess = null and resolves
FfProcExits(p) ==
    /\ ffstate[p] = "running"
    /\ \E how \in ExitKinds :
         /\ ffstate' = [ffstate EXCEPT ![p] = IF how = "signal" THEN "signalled" ELSE "exited"]
         /\ ffstarts' = [ffstarts EXCEPT ![p].st =
                           IF @ = "pending" /\ how = "nonzero" THEN "rejected" ELSE @]
    /\ ffmpegProcess' = ExitListenerRef(p)
    /\ ffstops' = [c \in FfStops |->
                     IF ffstops[c].st = "pending" /\ ffstops[c].proc = p
                       THEN [ffstops[c] EXCEPT
                               !.st = "resolved",
                               !.timeout = IF @ = "armed" THEN "cleared" ELSE @]
                       ELSE ffstops[c]]
    /\ UNCHANGED <<ffspawns, ffkilled, ffstdin, ffconfig, ffsignals, notFf>>

FfNext ==
    \/ \E c \in FfProcs : FfStart(c)
    \/ \E c \in FfProcs : FfStartTimer(c)
    \/ \E c \in FfStops : FfStop(c)
    \/ \E c \in FfStops : FfGraceExpires(c)
    \/ \E c \in FfStops : FfKillTimer(c)
    \/ \E p \in FfProcs : FfProcExits(p)

FfSpec == PartsInit /\ [][FfNext]_vars

\* Timers that are armed fire, and a running process ends at some time; when
\* start and stop are called is up to the caller.
FfFairness ==
    /\ \A c \in FfStops : WF_vars(FfGraceExpires(c)) /\ WF_vars(FfKillTimer(c))
    /\ \A c \in FfProcs : WF_vars(FfStartTimer(c))
    /\ \A p \in FfProcs : WF_vars(FfProcExits(p))

FfFairSpec == PartsInit /\ [][FfNext]_vars /\ FfFairness

\* C19 (as claimed): a stop() call made with a process resolves only once that
\* process has exited, on every path of stop.
C19_StopResolvesAfterExit ==
    \A c \in FfStops :
        (ffstops[c].st = "resolved" /\ ffstops[c].proc # 0) => FfGone(ffstops[c].proc)

\* ===================================================================== RunSpec
\* run-jobs: submitJob, waitForJobCompletion and the for loop of run, against a
\* server whose admission gate holds one session at a time.

\* GET /isbusy: 1 while a session is in flight, else 0
BusyStatus == IF srvOwner # 0 THEN 1 ELSE 0

\* submitJob, POST accepted (2xx): returns; run goes on to waitForJobCompletion
RunSubmitAccepted ==
    /\ runPc = "submit"
    /\ srvOwner = 0
    /\ srvOwner' = runIndex
    /\ accepted' = Append(accepted, runIndex)
    /\ runStatus' = 202
    /\ runObserved' = "none"
    /\ runPc' = "waitBusy"
    /\ UNCHANGED <<runIndex, runError, exitCode, finished, foreignJobs, notRun>>

\* every failure of the POST is answered by a new POST
RetriesEveryError(status) == TRUE

\* error instanceof AxiosError && error.response && error.response.status === 409
RetriesPost(status) == status = 409

\* the POST got no response within requestTimeoutMs
NoResponse == -1
\* failures of the POST other than 409: no response, or another error status
OtherFailures == {NoResponse, 500}

\* submitJob, the catch: on 409 sleep(pollIntervalMs) and post the same job
\* again; any other error is rethrown, ends run, and run().catch sets the exit
\* code
SubmitCatch(status) ==
    /\ runStatus' = status
    /\ IF RetriesPost(status)
         THEN UNCHANGED <<runPc, runError, exitCode>>
         ELSE runPc' = "failed" /\ runError' = "post" /\ exitCode' = 1

\* submitJob, 409 (the gate is held): the catch
RunSubmitBusy ==
    /\ runPc = "submit"
    /\ srvOwner # 0
    /\ SubmitCatch(409)
    /\ UNCHANGED <<runIndex, runObserved, accepted, finished, srvOwner, foreignJobs, notRun>>

\* submitJob, any other failure of the POST: the catch; the request may have
\* been accepted all the same when only the response was lost
RunSubmitFails ==
    /\ runPc = "submit"
    /\ \E status \in OtherFailures, reached \in BOOLEAN :
         /\ SubmitCatch(status)
         /\ IF status = NoResponse /\ reached /\ srvOwner = 0
              THEN /\ srvOwner' = runIndex
                   /\ accepted' = Append(accepted, runIndex)
              ELSE UNCHANGED <<srvOwner, accepted>>
    /\ UNCHANGED <<runIndex, runObserved, finished, foreignJobs, notRun>>

\* waitForBusyState(1, startTimeoutMs), one pass of its loop: returns when
\* /isbusy reads 1; else throws once the deadline has passed, else sleeps
RunPollBusy ==
    /\ runPc = "waitBusy"
    /\ \E requestFails, deadlinePassed \in BOOLEAN :
         IF requestFails
           THEN /\ runPc' = "failed" /\ runError' = "isbusy" /\ exitCode' = 1
                /\ UNCHANGED runObserved
           ELSE IF BusyStatus = 1
             THEN /\ runPc' = "waitIdle" /\ runObserved' = "busy"
                  /\ UNCHANGED <<runError, exitCode>>
             ELSE /\ runPc' = IF deadlinePassed THEN "failed" ELSE runPc
                  /\ runError' = IF deadlinePassed THEN "busyTimeout" ELSE runError
                  /\ exitCode' = IF deadlinePassed THEN 1 ELSE exitCode
                  /\ UNCHANGED runObserved
    /\ UNCHANGED <<runIndex, runStatus, accepted, finished, srvOwner, foreignJobs, notRun>>

\* the for loop of run goes on to the next job without waiting for idle
CompletionSeenAtOnce(busy) == TRUE

\* waitForBusyState(0, ...) returns when /isbusy reads 0
CompletionSeen(busy) == busy = 0

\* waitForBusyState(0, jobTimeoutMs), one pass of its loop; when it returns,
\* waitForJobCompletion returns and the for loop of run takes the next job
RunPollIdle ==
    /\ runPc = "waitIdle"
    /\ \E requestFails, deadlinePassed \in BOOLEAN :
         IF requestFails
           THEN /\ runPc' = "failed"
                /\ runError' = "isbusy"
                /\ exitCode' = 1
                /\ UNCHANGED <<runObserved, runIndex>>
           ELSE IF CompletionSeen(BusyStatus)
             THEN /\ runObserved' = "busyThenIdle"
                  /\ runIndex' = runIndex + 1
                  /\ runPc' = IF runIndex < NumJobs THEN "submit" ELSE "done"
                  /\ UNCHANGED <<runError, exitCode>>
             ELSE /\ runPc' = IF deadlinePassed THEN "failed" ELSE runPc
                  /\ runError' = IF deadlinePassed THEN "idleTimeout" ELSE runError
                  /\ exitCode' = IF deadlinePassed THEN 1 ELSE exitCode
                  /\ UNCHANGED <<runObserved, runIndex>>
    /\ UNCHANGED <<runStatus, accepted, finished, srvOwner, foreignJobs, notRun>>

\* the session in flight ends and the gate is released
ServerSessionEnds ==
    /\ srvOwner # 0
    /\ srvOwner' = 0
    /\ finished' = IF srvOwner \in Jobs THEN finished \cup {srvOwner} ELSE finished
    /\ UNCHANGED <<runIndex, runPc, runStatus, runError, exitCode, runObserved, accepted, foreignJobs,
                   notRun>>

\* a request of another client (REST or queue) is accepted while the gate is free
ForeignAccepted ==
    /\ srvOwner = 0
    /\ foreignJobs < MaxForeignJobs
    /\ foreignJobs' = foreignJobs + 1
    /\ srvOwner' = ForeignJob
    /\ UNCHANGED <<runIndex, runPc, runStatus, runError, exitCode, runObserved, accepted, finished,
                   notRun>>

RunNext ==
    \/ RunSubmitAccepted
    \/ RunSubmitBusy
    \/ RunSubmitFails
    \/ RunPollBusy
    \/ RunPollIdle
    \/ ServerSessionEnds
    \/ ForeignAccepted

RunSpec == PartsInit /\ [][RunNext]_vars

\* C22: the runner submits its jobs in file order; whenever it is about to post
\* job i+1 it has observed the server busy and then idle since job i was
\* accepted, and job i has ended; at no time are two of its jobs accepted and
\* unfinished.
C22_RunnerSequential ==
    /\ \A i \in 1..Len(accepted) : accepted[i] = i
    /\ (runPc = "submit" /\ runIndex > 1)
         => (runObserved = "busyThenIdle" /\ (runIndex - 1) \in finished)
    /\ Cardinality(Range(accepted) \ finished) <= 1

\* the runner has gone through the whole file and every job has ended, with a
\* request of another client served in between
C22_Witness ==
    /\ runPc = "done"
    /\ Len(accepted) = NumJobs
    /\ finished = Jobs
    /\ foreignJobs > 0

\* C30 (as claimed): when the 5 s timer that follows the SIGTERM of a stop() call
\* has fired and the ffmpeg process of that call is still running, SIGKILL has
\* been sent to it.
C30_SigkillAfterSigterm ==
    \A c \in FfStops :
        ( /\ ffstops[c].killTimer = "fired"
          /\ ffstops[c].proc # 0
          /\ ffstate[ffstops[c].proc] = "running" )
            => \E i \in 1..Len(ffsignals) :
                  ffsignals[i].sig = "SIGKILL" /\ ffsignals[i].p = ffstops[c].proc

\* C31 (as claimed): waitForJobCompletion returns normally for every accepted job
\* however quickly the job ran: it never throws for not having seen the server
\* busy.  (In waitForBusyState(1, ...) /isbusy reads 0 after the acceptance only
\* when the job has already ended.)
C31_FastJobCompletes ==
    runError = "busyTimeout" =>
        ~(runIndex \in Range(accepted) /\ runIndex \in finished)

\* The part of stop's idempotence that concerns a call that has resolved: it
\* stays resolved; at the step in which a call resolves the process reference is
\* null; and a stop() made after a stop of the latest process has resolved
\* resolves in the same step, writes nothing to stdin and sends no signal.
ResolvedStopIsFinal ==
    [][\A c \in FfStops :
         /\ ffstops[c].st = "resolved" => ffstops'[c].st = "resolved"
         /\ (ffstops[c].st # "resolved" /\ ffstops'[c].st = "resolved")
              => ffmpegProcess' = 0
         /\ ( /\ ffstops[c].st = "none"
              /\ ffstops'[c].st # "none"
              /\ \E d \in FfStops : /\ ffstops[d].st = "resolved"
                                     /\ ffstops[d].proc = ffspawns )
              => /\ ffstops'[c].st = "resolved"
                 /\ ffstdin' = ffstdin
                 /\ ffsignals' = ffsignals]_vars

\* C21 (as claimed): the promise of each stop() call resolves exactly once, so
\* every call that was made resolves at some time.
C21_EveryStopResolves ==
    \A c \in FfStops : (ffstops[c].st = "pending") ~> (ffstops[c].st = "resolved")

\* C36 (as claimed): FFmpegRecorder.start rejects without spawning a process
\* when the configuration gives no output; otherwise its promise resolves only
\* if the ffmpeg process it spawned was still running when the 2 s timer fired,
\* and it is rejected on a spawn error and on any exit before that timer.
C36_StartSettlement ==
    \A c \in FfProcs :
        /\ (ffstarts[c].st # "none" /\ ffconfig = "missing")
              => ffstarts[c].st = "rejected" /\ ~ffstarts[c].spawned /\ ffstate[c] = "unspawned"
        /\ ffstarts[c].st = "resolved"
              => ffstarts[c].timer = "fired" /\ ffstarts[c].ranAtTimer
        /\ (ffstarts[c].timer = "fired" /\ ~ffstarts[c].ranAtTimer)
              => ffstarts[c].st = "rejected"
        /\ ffstate[c] = "failed" => ffstarts[c].st = "rejected"

\* C35 (as claimed): YouTubeLiveStreamer.start spawns no process while one is
\* referenced, so at most one runs at a time and a start() that found a process
\* present spawned none; a start promise is resolved only if the process it is
\* about (the one it spawned, or the one it found present) was running when it
\* resolved, and a start whose spawn failed is rejected.
C35_LiveStartSettlement ==
    /\ Cardinality({p \in LiveProcs : lstate[p] = "running"}) <= 1
    /\ \A c \in StartCalls :
         /\ lstarts[c].st = "resolved" => lstarts[c].sawRunning
         /\ (lstarts[c].proc # 0 /\ lstate[lstarts[c].proc] = "failed")
               => lstarts[c].st = "rejected"

\* C38: while the server answers 409 submitJob is still posting the same job,
\* the next one not yet accepted; it returns on the accepted response, so run
\* waits for a job only after that job's POST was accepted; any other failure
\* of the POST ends run with the error of the POST and exit code 1, with no job
\* after the failed one submitted.
C38_SubmitRetriesOnlyOn409 ==
    /\ runStatus = 409 => runPc = "submit"
    /\ runPc = "submit" => runIndex = Len(accepted) + 1
    /\ runPc \in {"waitBusy", "waitIdle"}
         => runStatus = 202 /\ Len(accepted) > 0 /\ accepted[Len(accepted)] = runIndex
    /\ runStatus \in OtherFailures
         => runPc = "failed" /\ runError = "post" /\ exitCode = 1
    /\ runPc = "failed" => exitCode = 1 /\ \A j \in Range(accepted) : j <= runIndex
    /\ exitCode = 1 => runPc = "failed"

\* C38 witness: the first job was accepted and ran, the POST of the second one
\* was answered 500: run failed, the third job was never submitted
C38_Witness ==
    /\ runPc = "failed"
    /\ runError = "post"
    /\ runStatus = 500
    /\ runIndex = 2
    /\ accepted = <<1>>
    /\ exitCode = 1

====
